---------------------------- MODULE Spec2Model ----------------------------
(***************************************************************************)
(* State-machine model of langextract/contrib/ingest/pipeline.py: the      *)
(* vector-text gate, the rasterizer hand-off, pilot auto-selection, the    *)
(* ordered fallback loop of recognize_pdf / recognize_images, the         *)
(* adapters the registry builds, the dual pass of maybe_enable_htr, and     *)
(* the pdf and image commands of cli.py.                                   *)
(*                                                                         *)
(* Conventions.  Confidences are integers in hundredths (0.6 is 60).  A    *)
(* text is a sequence of characters, each character a one-token string.    *)
(* A Python Optional is a sequence of length at most one: <<>> is None,    *)
(* <<v>> is the value v.  What an external engine, the embedded-text       *)
(* extractor or the rasterizer does is chosen nondeterministically when    *)
(* the pipeline calls it.                                                  *)
(***************************************************************************)
EXTENDS FiniteSets, Integers, Sequences, TLC

VARIABLES
  pc,                    \* position of the running entry point
  entry,                 \* "recognize_pdf" | "recognize_images"
  engine_arg,            \* the engine argument as the caller passed it
  engine,                \* the local variable engine (reassigned by auto-selection)
  prefer_ocr,            \* argument prefer_ocr
  confidence_threshold,  \* argument confidence_threshold, in hundredths
  fallback_order,        \* argument fallback_order: <<>> is None, <<seq>> a sequence
  has_pdfminer,          \* module flag _HAS_PDFMINER
  auto_install,          \* autodeps._should_auto_install()
  env_auto_install,      \* os.getenv("LANGEXTRACT_INGEST_AUTO_INSTALL", "1")
  pip_ok,                \* whether pip's subprocess succeeds in this environment
  vector_text,           \* local vector_text
  images,                \* <<>> before images exist, <<pages>> afterwards
  order,                 \* local order
  idx,                   \* index in order of the next engine of the for loop
  last_res,              \* local last_res: <<>> or <<RecognizeResult>>
  result,                \* <<>> or <<IngestResult>>: the value returned
  error,                 \* <<>> or <<kind>>: the exception raised to the caller
  calls,                 \* history: every call to a collaborator, in order
  attempts,              \* history: outcome of each iteration of the for loop
  htr_args,              \* <<>>, or <<arguments>> of the enclosing maybe_enable_htr
  printed,               \* maybe_enable_htr's local printed: <<>> until assigned
  htr_res,               \* maybe_enable_htr's local htr_res: <<>> until assigned
  htr_result,            \* <<>> or <<IngestResult>>: what maybe_enable_htr returned
  deadline_at,           \* <<>>, or <<n>>: the caller's deadline passed after n attempts
  fn_in,                 \* argument of the pure function under test
  fn_out                 \* its returned values, one per call

vars == <<pc, entry, engine_arg, engine, prefer_ocr, confidence_threshold,
          fallback_order, has_pdfminer, auto_install, env_auto_install,
          pip_ok, vector_text, images, order, idx, last_res, result, error,
          calls, attempts, htr_args,
          printed, htr_res, htr_result, deadline_at, fn_in, fn_out>>

---------------------------------------------------------------------------
(* Program constants *)

MIN_LEN == 64
MAX_SIDE == 512
PILOT_TEXT_PREFIX == 512
SCRIPT_BONUS == 5
INITIAL_BEST_SCORE == -100
DEFAULT_THRESHOLD == 60

Registry == {"paddle", "tesseract", "easyocr", "doctr", "trocr", "donut", "nougat"}

DefaultFallback == <<"paddle", "easyocr", "tesseract">>

\* the characters of "çğıöşüÇĞİÖŞÜ"
ScriptBonusChars ==
  {"c_cedilla", "g_breve", "dotless_i", "o_umlaut", "s_cedilla", "u_umlaut",
   "C_cedilla", "G_breve", "dotted_I", "O_umlaut", "S_cedilla", "U_umlaut"}

Whitespace == {" ", "\t", "\n"}

---------------------------------------------------------------------------
(* Bounds of the model *)

MaxPad == 2        \* longest run of whitespace around a generated text
MaxCalls == 2      \* calls of a pure function in one behaviour
MaxScores == 2     \* raw scores an engine reports for one page

---------------------------------------------------------------------------
(* Generic helpers *)

Min(a, b) == IF a < b THEN a ELSE b
Max(a, b) == IF a > b THEN a ELSE b

Contains(s, x) == \E i \in 1..Len(s) : s[i] = x

\* s[:n]
Prefix(s, n) == SubSeq(s, 1, Min(n, Len(s)))

\* str.lower() on the identifiers the model uses
Lower(s) ==
  CASE s = "PADDLE" -> "paddle"
    [] s = "Tesseract" -> "tesseract"
    [] OTHER -> s

---------------------------------------------------------------------------
(* is_sufficient_vector_text *)

RECURSIVE lstrip(_)
lstrip(s) ==
  IF s = <<>> THEN s
  ELSE IF Head(s) \in Whitespace THEN lstrip(Tail(s)) ELSE s

RECURSIVE rstrip(_)
rstrip(s) ==
  IF s = <<>> THEN s
  ELSE IF s[Len(s)] \in Whitespace THEN rstrip(SubSeq(s, 1, Len(s) - 1)) ELSE s

strip(s) == rstrip(lstrip(s))

is_sufficient_no_strip(text, min_len) ==
  IF text = <<>> THEN FALSE ELSE Len(text) >= min_len

is_sufficient_vector_text(text, min_len) ==
  IF text = <<>> THEN FALSE ELSE Len(strip(text)) >= min_len

---------------------------------------------------------------------------
(* Adapters (ocr/*.py, vlm/*.py) and the registry *)

\* what the engine library underneath an adapter does in one call
EngineOutputs ==
  {[text |-> <<>>,            raw |-> -10, meta |-> "m0"],
   [text |-> <<"a">>,         raw |-> 30,  meta |-> "m1"],
   [text |-> <<"c_cedilla">>, raw |-> 60,  meta |-> "m2"]}

Behaviours ==
  {[kind |-> "import_error"], [kind |-> "runtime_error"]}
    \cup {[kind |-> "output", out |-> o] : o \in EngineOutputs}

ClampBelowOnly(raw) == Max(0, raw)

\* max(0.0, min(1.0, mean_conf))
Clamp(raw) == Max(0, Min(100, raw))

ReportsConfidence == {"paddle", "tesseract", "easyocr"}

supports_pdf(a) == a \in {"paddle", "doctr", "nougat"}

supports_image(a) == a # "nougat"

RecognizeResult(a, out) ==
  [text |-> out.text,
   mean_confidence |-> IF a \in ReportsConfidence THEN Clamp(out.raw) ELSE 0,
   engine |-> a,
   meta |-> out.meta]

\* adapter.recognize_pdf: <<>> when it raises
adapter_recognize_pdf(a, b) ==
  IF ~supports_pdf(a) \/ b.kind # "output" THEN <<>>
  ELSE <<RecognizeResult(a, b.out)>>

\* adapter.recognize_images: <<>> when it raises
adapter_recognize_images(a, b) ==
  IF ~supports_image(a) \/ b.kind # "output" THEN <<>>
  ELSE <<RecognizeResult(a, b.out)>>

\* build_adapter: <<>> when it raises (unknown identifier, or the engine's
\* runtime is missing), else the adapter, identified by its class's name
build_adapter(name, b) ==
  IF Lower(name) \notin Registry THEN <<>>
  ELSE IF b.kind = "import_error" THEN <<>>
  ELSE <<Lower(name)>>

---------------------------------------------------------------------------
(* pilot_crop and auto_select_engine *)

Crop(im, max_side) == [w |-> Min(im.w, max_side), h |-> Min(im.h, max_side)]

pilot_crop_none(imgs, max_side) == imgs

\* _pilot_crop (pilot_crop here): the first image only, cropped from the origin
pilot_crop(imgs, max_side) ==
  IF imgs = <<>> THEN <<>> ELSE <<Crop(imgs[1], max_side)>>

HasScriptBonus(text) ==
  \E ch \in ScriptBonusChars : Contains(Prefix(text, PILOT_TEXT_PREFIX), ch)

PilotScore(res) ==
  res.mean_confidence + (IF HasScriptBonus(res.text) THEN SCRIPT_BONUS ELSE 0)

\* the body of the try block for one candidate: <<>> when it raised
PilotRun(name, b) ==
  LET a == build_adapter(name, b)
  IN  IF a = <<>> THEN <<>> ELSE adapter_recognize_images(a[1], b)

RECURSIVE AutoSelectLoopLastWins(_, _, _, _, _)
AutoSelectLoopLastWins(cands, i, best_name, best_score, pilot) ==
  IF i > Len(cands) THEN best_name
  ELSE LET r == PilotRun(cands[i], pilot[cands[i]])
       IN  IF r # <<>> /\ PilotScore(r[1]) >= best_score
           THEN AutoSelectLoopLastWins(cands, i + 1, <<cands[i]>>,
                                       PilotScore(r[1]), pilot)
           ELSE AutoSelectLoopLastWins(cands, i + 1, best_name, best_score, pilot)

RECURSIVE AutoSelectLoop(_, _, _, _, _)
AutoSelectLoop(cands, i, best_name, best_score, pilot) ==
  IF i > Len(cands) THEN best_name
  ELSE LET r == PilotRun(cands[i], pilot[cands[i]])
       IN  IF r # <<>> /\ PilotScore(r[1]) > best_score
           THEN AutoSelectLoop(cands, i + 1, <<cands[i]>>, PilotScore(r[1]), pilot)
           ELSE AutoSelectLoop(cands, i + 1, best_name, best_score, pilot)

\* pilot[name] is what candidate name's engine does on the pilot crop.
\* <<name>> is the returned identifier; <<>> is the IndexError of line 123,
\* candidates[0] on an empty candidate list
auto_select_engine(cands, pilot) ==
  LET best == AutoSelectLoop(cands, 1, <<>>, INITIAL_BEST_SCORE, pilot)
  IN  IF best # <<>> THEN best
      ELSE IF cands # <<>> THEN <<cands[1]>>
      ELSE <<>>

\* one call to a collaborator: ok is FALSE when the call raised
Call(op, who, phase, imgs, ok) ==
  [op |-> op, who |-> who, phase |-> phase, imgs |-> imgs, ok |-> ok]

\* the collaborator calls auto_select_engine makes, in order
RECURSIVE PilotCalls(_, _, _, _)
PilotCalls(cands, i, pilot, crop) ==
  IF i > Len(cands) THEN <<>>
  ELSE LET a == build_adapter(cands[i], pilot[cands[i]])
       IN  <<Call("build_adapter", cands[i], "pilot", <<>>, a # <<>>)>>
           \o (IF a = <<>> THEN <<>>
               ELSE <<Call("recognize_images", cands[i], "pilot", crop,
                           adapter_recognize_images(a[1], pilot[cands[i]]) # <<>>)>>)
           \o PilotCalls(cands, i + 1, pilot, crop)

---------------------------------------------------------------------------
(* autodeps *)

HasPackages(name) == name \in Registry

\* the values of the variable that disable auto-install, as characters
DisabledValues ==
  {<<"0">>, <<"f", "a", "l", "s", "e">>, <<"F", "a", "l", "s", "e">>, <<"n", "o">>}

\* the variable unset (the default "1"), and set to "0"
DefaultEnvs == {<<"1">>, <<"0">>}

\* _should_auto_install: env.strip() not in ("0", "false", "False", "no")
should_auto_install(env) == strip(env) \notin DisabledValues

\* _pip_install: the call returns a bool and raises nothing; ok is whether
\* the subprocess succeeded
pip_install(who, ok) == Call("pip_install", who, "deps", <<>>, ok)

\* ensure_common: pip runs only when auto-install is enabled
ensure_common(enabled, ok) ==
  IF enabled THEN <<pip_install("common", ok)>> ELSE <<>>

ensure_for_engine_always(enabled, name, ok) ==
  IF HasPackages(name) THEN <<pip_install(name, ok)>> ELSE <<>>

\* ensure_for_engine: pip runs for a key of _ENGINE_TO_PACKAGES
ensure_for_engine(enabled, name, ok) ==
  IF enabled /\ HasPackages(name) THEN <<pip_install(name, ok)>> ELSE <<>>

---------------------------------------------------------------------------
(* The candidate order of recognize_pdf (lines 166-173) and of           *)
(* recognize_images (lines 222-225)                                       *)

AppendDefaultsNever(ord, i) == ord

RECURSIVE AppendDefaults(_, _)
AppendDefaults(ord, i) ==
  IF i > Len(DefaultFallback) THEN ord
  ELSE AppendDefaults(
         IF Contains(ord, DefaultFallback[i]) THEN ord
         ELSE Append(ord, DefaultFallback[i]), i + 1)

\* fo is the argument fallback_order: <<>> for None, <<seq>> otherwise
pdf_order(eng, fo) ==
  LET base == IF fo # <<>> /\ fo[1] # <<>> THEN fo[1] ELSE <<eng>>
      withEngine == IF Contains(base, eng) THEN base ELSE <<eng>> \o base
  IN  AppendDefaults(withEngine, 1)

images_order(eng) == AppendDefaults(<<eng>>, 1)

IngestResult(input_path, used_ocr, eng, conf, text, meta) ==
  [input_path |-> input_path, used_ocr |-> used_ocr, engine |-> eng,
   ocr_confidence |-> conf, text |-> text, meta |-> meta]

\* the argument path of recognize_pdf; recognize_images has none
InputPath(ent) == IF ent = "recognize_pdf" THEN <<"doc.pdf">> ELSE <<>>

ExtractorConsultedAlways(prefer, has) == has

\* line 144: the extractor is called unless prefer_ocr or pdfminer is missing
ExtractorConsulted(prefer, has) == ~prefer /\ has

VectorResultStripped(ent, text) ==
  IngestResult(InputPath(ent), FALSE, <<>>, <<>>, strip(text), "vector")

\* lines 150-157: the short-circuit result
VectorResult(ent, text) ==
  IngestResult(InputPath(ent), FALSE, <<>>, <<>>, text, "vector")

AcceptsStrictly(res, threshold) == res.mean_confidence > threshold

\* lines 186 and 234
Accepts(res, threshold) == res.mean_confidence >= threshold

\* lines 187-194 and 235-242: the accepted result carries the loop's name
AcceptedResult(ent, name, res) ==
  IngestResult(InputPath(ent), TRUE, <<name>>, <<res.mean_confidence>>,
               res.text, res.meta)

\* lines 200-207 and 247-254: the degraded result is built from last_res
DegradedResult(ent, last) ==
  IngestResult(InputPath(ent), TRUE, <<last.engine>>, <<last.mean_confidence>>,
               last.text, last.meta)

---------------------------------------------------------------------------
(* Inputs of one invocation *)

EngineArgs == {"auto", "paddle", "PADDLE", "bogus", "nougat"}

\* <<>> is None; a caller's list may repeat an engine or name the engine late
FallbackOrders ==
  {<<>>, <<<<"tesseract", "tesseract">>>>, <<<<"doctr", "paddle">>>>}

Thresholds == {0, DEFAULT_THRESHOLD}

SmallPage == [w |-> 300, h |-> 200]
LargePage == [w |-> 1000, h |-> 600]

ImageInputs == {<<LargePage, SmallPage>>, <<SmallPage>>, <<>>}

\* what the rasterizer returns for the document
PdfPages == {<<LargePage, SmallPage>>}

\* a text of lead whitespace characters, core other characters, trail
\* whitespace characters; the characters of the core are not whitespace
\* except, when inner holds, the second one
MkText(lead, core, trail, inner) ==
  [i \in 1..(lead + core + trail) |->
     IF i <= lead THEN (IF i % 2 = 1 THEN " " ELSE "\n")
     ELSE IF i > lead + core THEN (IF i % 2 = 1 THEN "\t" ELSE " ")
     ELSE IF inner /\ i = lead + 2 /\ core > 2 THEN " "
     ELSE "x"]

\* what pdfminer's extract_text returns in the pipeline runs
VectorTexts ==
  {MkText(0, 0, 0, FALSE), MkText(1, MIN_LEN - 1, MaxPad, FALSE),
   MkText(1, MIN_LEN, MaxPad, TRUE)}

---------------------------------------------------------------------------
(* recognize_pdf and recognize_images, one action per step *)

Init ==
  /\ pc = "start"
  /\ engine_arg \in EngineArgs
  /\ engine = engine_arg
  /\ confidence_threshold \in Thresholds
  /\ env_auto_install \in DefaultEnvs
  /\ auto_install = should_auto_install(env_auto_install)
  /\ pip_ok = TRUE
  /\ \/ /\ entry = "recognize_pdf"
        /\ prefer_ocr \in BOOLEAN
        /\ has_pdfminer \in BOOLEAN
        /\ fallback_order \in FallbackOrders
        /\ images = <<>>
     \/ /\ entry = "recognize_images"
        /\ prefer_ocr = FALSE
        /\ has_pdfminer = TRUE
        /\ fallback_order = <<>>
        /\ images \in {<<im>> : im \in ImageInputs}
  /\ vector_text = <<>>
  /\ order = <<>>
  /\ idx = 0
  /\ last_res = <<>>
  /\ result = <<>>
  /\ error = <<>>
  /\ calls = <<>>
  /\ attempts = <<>>
  /\ htr_args = <<>>
  /\ printed = <<>>
  /\ htr_res = <<>>
  /\ htr_result = <<>>
  /\ deadline_at = <<>>
  /\ fn_in = <<>>
  /\ fn_out = <<>>

Inputs == <<entry, engine_arg, prefer_ocr, confidence_threshold, fallback_order,
            has_pdfminer, auto_install, env_auto_install, pip_ok>>

Pure == <<fn_in, fn_out>>

\* the caller's side of one recognize_pdf / recognize_images invocation: the
\* frame of maybe_enable_htr and the caller's deadline
Caller == <<htr_args, printed, htr_res, htr_result, deadline_at>>

\* autodeps.ensure_common() at the head of both entry points
Begin ==
  /\ pc = "start"
  /\ calls' = calls \o ensure_common(auto_install, pip_ok)
  /\ pc' = IF entry = "recognize_pdf" THEN "gate" ELSE "select"
  /\ UNCHANGED <<Inputs, Pure, Caller, engine, vector_text, images, order, idx,
                 last_res, result, error, attempts>>

\* Step 1 when the extractor is not called
GateSkip ==
  /\ pc = "gate"
  /\ ~ExtractorConsulted(prefer_ocr, has_pdfminer)
  /\ pc' = "raster"
  /\ UNCHANGED <<Inputs, Pure, Caller, engine, vector_text, images, order, idx,
                 last_res, result, error, calls, attempts>>

GateExtractPropagates ==
  /\ pc = "gate"
  /\ ExtractorConsulted(prefer_ocr, has_pdfminer)
  /\ calls' = Append(calls, Call("extract_text", "pdfminer", "gate", <<>>, FALSE))
  /\ error' = <<"ExtractionFailed">>
  /\ pc' = "failed"
  /\ UNCHANGED <<Inputs, Pure, Caller, engine, vector_text, images, order, idx,
                 last_res, result, attempts>>

\* Step 1 when pdfminer_extract_text raises
GateExtractRaises ==
  /\ pc = "gate"
  /\ ExtractorConsulted(prefer_ocr, has_pdfminer)
  /\ calls' = Append(calls, Call("extract_text", "pdfminer", "gate", <<>>, FALSE))
  /\ vector_text' = <<>>
  /\ pc' = "raster"
  /\ UNCHANGED <<Inputs, Pure, Caller, engine, images, order, idx, last_res, result,
                 error, attempts>>

\* Step 1 when pdfminer_extract_text returns a text
GateExtractReturns ==
  /\ pc = "gate"
  /\ ExtractorConsulted(prefer_ocr, has_pdfminer)
  /\ \E t \in VectorTexts :
       /\ calls' = Append(calls, Call("extract_text", "pdfminer", "gate", <<>>, TRUE))
       /\ vector_text' = t
       /\ IF t # <<>> /\ is_sufficient_vector_text(t, MIN_LEN)
          THEN /\ result' = <<VectorResult(entry, t)>>
               /\ pc' = "done"
          ELSE /\ result' = result
               /\ pc' = "raster"
  /\ UNCHANGED <<Inputs, Pure, Caller, engine, images, order, idx, last_res, error,
                 attempts>>

RasterizeRaisesSkipped ==
  /\ pc = "raster"
  /\ calls' = Append(calls, Call("convert_from_path", "pdf2image", "raster", <<>>,
                                 FALSE))
  /\ images' = <<<<>>>>
  /\ pc' = "select"
  /\ UNCHANGED <<Inputs, Pure, Caller, engine, vector_text, order, idx,
                 last_res, result, error, attempts>>

\* Step 2 when _load_images_from_pdf raises
RasterizeRaises ==
  /\ pc = "raster"
  /\ calls' = Append(calls, Call("convert_from_path", "pdf2image", "raster", <<>>,
                                 FALSE))
  /\ error' = <<"RasterizationFailed">>
  /\ pc' = "failed"
  /\ UNCHANGED <<Inputs, Pure, Caller, engine, vector_text, images, order, idx,
                 last_res, result, attempts>>

\* Step 2 when _load_images_from_pdf returns the page images
RasterizeReturns ==
  /\ pc = "raster"
  /\ \E pages \in PdfPages :
       /\ calls' = Append(calls, Call("convert_from_path", "pdf2image", "raster",
                                      <<>>, TRUE))
       /\ images' = <<pages>>
  /\ pc' = "select"
  /\ UNCHANGED <<Inputs, Pure, Caller, engine, vector_text, order, idx, last_res,
                 result, error, attempts>>

DefaultCandidates == {DefaultFallback[i] : i \in 1..Len(DefaultFallback)}

\* Step 3 with engine == "auto"; the default candidates are not empty, so
\* the call returns an identifier
SelectAuto ==
  /\ pc = "select"
  /\ engine = "auto"
  /\ \E pilot \in [DefaultCandidates -> Behaviours] :
       /\ engine' = auto_select_engine(DefaultFallback, pilot)[1]
       /\ calls' = calls \o PilotCalls(DefaultFallback, 1, pilot,
                                       pilot_crop(images[1], MAX_SIDE))
  /\ pc' = "order"
  /\ UNCHANGED <<Inputs, Pure, Caller, vector_text, images, order, idx, last_res,
                 result, error, attempts>>

\* Step 3 with an explicit engine
SelectExplicit ==
  /\ pc = "select"
  /\ engine # "auto"
  /\ pc' = "order"
  /\ UNCHANGED <<Inputs, Pure, Caller, engine, vector_text, images, order, idx,
                 last_res, result, error, calls, attempts>>

\* Step 4: the candidate order, computed once
BuildOrder ==
  /\ pc = "order"
  /\ order' = IF entry = "recognize_pdf" THEN pdf_order(engine, fallback_order)
              ELSE images_order(engine)
  /\ idx' = 1
  /\ pc' = "loop"
  /\ UNCHANGED <<Inputs, Pure, Caller, engine, vector_text, images, last_res, result,
                 error, calls, attempts>>

ExceptPropagate(i) == [pc |-> "failed", idx |-> i, error |-> <<"EngineError">>]

\* lines 195-196 and 243-244: except Exception: continue
ExceptContinue(i) == [pc |-> "loop", idx |-> i + 1, error |-> <<>>]

KeepBest(prev, res) ==
  IF prev # <<>> /\ prev[1].mean_confidence > res[1].mean_confidence
  THEN prev ELSE res

\* lines 185 and 233: last_res = res, whatever last_res held
KeepLast(prev, res) == res

ChooseMethodImagesAlways(ent, adapter) == "recognize_images"

\* lines 180-184: recognize_pdf branches on adapter.supports_pdf;
\* recognize_images (line 232) has the one method
ChooseMethod(ent, adapter) ==
  IF ent = "recognize_pdf" /\ supports_pdf(adapter)
  THEN "recognize_pdf" ELSE "recognize_images"

AttemptRecord(name, kind, method, res) ==
  [name |-> name, kind |-> kind, method |-> method, res |-> res]

\* one iteration of the for loop over order, b being what the engine does
Attempt ==
  /\ pc = "loop"
  /\ idx <= Len(order)
  /\ \E b \in Behaviours :
       LET name == order[idx]
           deps == ensure_for_engine(auto_install, name, pip_ok)
           built == build_adapter(name, b)
           adapter == built[1]
           method == ChooseMethod(entry, adapter)
           res == IF method = "recognize_pdf"
                  THEN adapter_recognize_pdf(adapter, b)
                  ELSE adapter_recognize_images(adapter, b)
           invoke == Call(method, name, "loop",
                          IF method = "recognize_pdf" THEN <<>> ELSE images[1],
                          res # <<>>)
       IN  IF built = <<>>
           THEN /\ calls' = calls \o deps
                              \o <<Call("build_adapter", name, "loop", <<>>, FALSE)>>
                /\ attempts' = Append(attempts,
                                  AttemptRecord(name, "build_raised", "none", <<>>))
                /\ pc' = ExceptContinue(idx).pc
                /\ idx' = ExceptContinue(idx).idx
                /\ error' = ExceptContinue(idx).error
                /\ UNCHANGED <<last_res, result>>
           ELSE /\ calls' = calls \o deps
                              \o <<Call("build_adapter", name, "loop", <<>>, TRUE),
                                   invoke>>
                /\ IF res = <<>>
                   THEN /\ attempts' = Append(attempts,
                                  AttemptRecord(name, "call_raised", method, <<>>))
                        /\ pc' = ExceptContinue(idx).pc
                        /\ idx' = ExceptContinue(idx).idx
                        /\ error' = ExceptContinue(idx).error
                        /\ UNCHANGED <<last_res, result>>
                   ELSE /\ attempts' = Append(attempts,
                                  AttemptRecord(name, "returned", method, res))
                        /\ last_res' = KeepLast(last_res, res)
                        /\ IF Accepts(res[1], confidence_threshold)
                           THEN /\ result' = <<AcceptedResult(entry, name, res[1])>>
                                /\ pc' = "done"
                                /\ idx' = idx
                                /\ error' = error
                           ELSE /\ idx' = idx + 1
                                /\ UNCHANGED <<result, pc, error>>
  /\ UNCHANGED <<Inputs, Pure, Caller, engine, vector_text, images, order>>

FinishFailsBelowThreshold ==
  /\ pc = "loop"
  /\ idx > Len(order)
  /\ error' = <<"NoEngineSucceeded">>
  /\ pc' = "failed"
  /\ UNCHANGED <<Inputs, Pure, Caller, engine, vector_text, images, order, idx,
                 last_res, result, calls, attempts>>

\* after the loop: the last result if any, else the RuntimeError
Finish ==
  /\ pc = "loop"
  /\ idx > Len(order)
  /\ IF last_res # <<>>
     THEN /\ result' = <<DegradedResult(entry, last_res[1])>>
          /\ pc' = "done"
          /\ error' = error
     ELSE /\ error' = <<"NoEngineSucceeded">>
          /\ pc' = "failed"
          /\ result' = result
  /\ UNCHANGED <<Inputs, Pure, Caller, engine, vector_text, images, order, idx,
                 last_res, calls, attempts>>

Next ==
  \/ Begin
  \/ GateSkip
  \/ GateExtractRaises
  \/ GateExtractReturns
  \/ RasterizeRaises
  \/ RasterizeReturns
  \/ SelectAuto
  \/ SelectExplicit
  \/ BuildOrder
  \/ Attempt
  \/ Finish

Spec == Init /\ [][Next]_vars

---------------------------------------------------------------------------
(* autodeps under every setting of LANGEXTRACT_INGEST_AUTO_INSTALL and     *)
(* both outcomes of pip, for an explicitly named engine                    *)

\* the variable as the process may find it: unset, the four documented
\* disabling values, one of them padded, another case, and the empty string
EnvValues ==
  DefaultEnvs \cup DisabledValues
    \cup {<<" ", "n", "o", "\n">>, <<"F", "A", "L", "S", "E">>, <<>>}

DepsEngineArgs == {"paddle", "PADDLE", "bogus"}

InitDeps ==
  /\ pc = "start"
  /\ engine_arg \in DepsEngineArgs
  /\ engine = engine_arg
  /\ confidence_threshold \in Thresholds
  /\ env_auto_install \in EnvValues
  /\ auto_install = should_auto_install(env_auto_install)
  /\ pip_ok \in BOOLEAN
  /\ \/ /\ entry = "recognize_pdf"
        /\ prefer_ocr \in BOOLEAN
        /\ has_pdfminer \in BOOLEAN
        /\ fallback_order \in {<<>>, <<<<"doctr", "paddle">>>>}
        /\ images = <<>>
     \/ /\ entry = "recognize_images"
        /\ prefer_ocr = FALSE
        /\ has_pdfminer = TRUE
        /\ fallback_order = <<>>
        /\ images \in {<<im>> : im \in ImageInputs}
  /\ vector_text = <<>>
  /\ order = <<>>
  /\ idx = 0
  /\ last_res = <<>>
  /\ result = <<>>
  /\ error = <<>>
  /\ calls = <<>>
  /\ attempts = <<>>
  /\ htr_args = <<>>
  /\ printed = <<>>
  /\ htr_res = <<>>
  /\ htr_result = <<>>
  /\ deadline_at = <<>>
  /\ fn_in = <<>>
  /\ fn_out = <<>>

NextDeps ==
  \/ Begin
  \/ GateSkip
  \/ GateExtractRaises
  \/ GateExtractReturns
  \/ RasterizeRaises
  \/ RasterizeReturns
  \/ SelectExplicit
  \/ BuildOrder
  \/ Attempt
  \/ Finish

SpecDeps == InitDeps /\ [][NextDeps]_vars

---------------------------------------------------------------------------
(* maybe_enable_htr: the printed pass is one recognize_images invocation   *)
(* with the default threshold, the handwriting pass one step after it      *)

\* f"{printed.engine}" and printed.ocr_confidence or 0.0
EngineStr(opt) == IF opt = <<>> THEN "None" ELSE opt[1]
OrZero(opt) == IF opt = <<>> THEN 0 ELSE opt[1]

CombinedResultNoSeparator(pr, hres) ==
  IngestResult(<<>>, TRUE, <<EngineStr(pr.engine) \o "+" \o hres.engine>>,
               <<Max(OrZero(pr.ocr_confidence), hres.mean_confidence)>>,
               pr.text \o hres.text,
               [printed |-> pr.meta, htr |-> hres.meta])

\* lines 276-285
CombinedResult(pr, hres) ==
  IngestResult(<<>>, TRUE, <<EngineStr(pr.engine) \o "+" \o hres.engine>>,
               <<Max(OrZero(pr.ocr_confidence), hres.mean_confidence)>>,
               pr.text \o <<"\n">> \o hres.text,
               [printed |-> pr.meta, htr |-> hres.meta])

HtrExceptPropagate(pr) == [pc |-> "failed", htr_result |-> <<>>,
                           error |-> <<"EngineError">>]

\* lines 287-288: except Exception: return printed
HtrExcept(pr) == [pc |-> "returned", htr_result |-> <<pr>>, error |-> <<>>]

PrintedEngines == {"paddle", "PADDLE", "auto", "bogus"}

HtrEngines == {"trocr", "tesseract", "nougat", "bogus"}

HtrArgs ==
  {[enable_htr |-> FALSE, htr_engine |-> "trocr"]}
    \cup {[enable_htr |-> TRUE, htr_engine |-> h] : h \in HtrEngines}

InitHtr ==
  /\ pc = "start"
  /\ entry = "recognize_images"
  /\ engine_arg \in PrintedEngines
  /\ engine = engine_arg
  /\ confidence_threshold = DEFAULT_THRESHOLD
  /\ env_auto_install \in DefaultEnvs
  /\ auto_install = should_auto_install(env_auto_install)
  /\ pip_ok = TRUE
  /\ prefer_ocr = FALSE
  /\ has_pdfminer = TRUE
  /\ fallback_order = <<>>
  /\ images \in {<<im>> : im \in ImageInputs}
  /\ htr_args \in {<<a>> : a \in HtrArgs}
  /\ vector_text = <<>>
  /\ order = <<>>
  /\ idx = 0
  /\ last_res = <<>>
  /\ result = <<>>
  /\ error = <<>>
  /\ calls = <<>>
  /\ attempts = <<>>
  /\ printed = <<>>
  /\ htr_res = <<>>
  /\ htr_result = <<>>
  /\ deadline_at = <<>>
  /\ fn_in = <<>>
  /\ fn_out = <<>>

HtrRequestedAlways(args) == TRUE

\* line 268: if not enable_htr
HtrRequested(args) == args.enable_htr

\* line 269: enable_htr false, the value of recognize_images is returned
HtrDisabledReturn ==
  /\ pc = "done"
  /\ htr_args # <<>>
  /\ ~HtrRequested(htr_args[1])
  /\ htr_result' = result
  /\ pc' = "returned"
  /\ UNCHANGED <<Inputs, Pure, engine, vector_text, images, order, idx,
                 last_res, result, error, calls, attempts, htr_args, printed,
                 htr_res, deadline_at>>

\* lines 272-288 once recognize_images has returned: printed is assigned and
\* the handwriting engine is built and invoked, b being what it does
HtrPass ==
  /\ pc = "done"
  /\ htr_args # <<>>
  /\ HtrRequested(htr_args[1])
  /\ printed' = result
  /\ \E b \in Behaviours :
       LET name == htr_args[1].htr_engine
           built == build_adapter(name, b)
           res == adapter_recognize_images(built[1], b)
           invoke == Call("recognize_images", name, "htr", images[1],
                          res # <<>>)
       IN  IF built = <<>>
           THEN /\ calls' = Append(calls,
                                   Call("build_adapter", name, "htr", <<>>, FALSE))
                /\ htr_result' = HtrExcept(result[1]).htr_result
                /\ pc' = HtrExcept(result[1]).pc
                /\ error' = HtrExcept(result[1]).error
                /\ htr_res' = htr_res
           ELSE /\ calls' = calls
                              \o <<Call("build_adapter", name, "htr", <<>>, TRUE),
                                   invoke>>
                /\ htr_res' = res
                /\ IF res = <<>>
                   THEN /\ htr_result' = HtrExcept(result[1]).htr_result
                        /\ pc' = HtrExcept(result[1]).pc
                        /\ error' = HtrExcept(result[1]).error
                   ELSE /\ htr_result' = <<CombinedResult(result[1], res[1])>>
                        /\ pc' = "returned"
                        /\ error' = error
  /\ UNCHANGED <<Inputs, Pure, engine, vector_text, images, order, idx,
                 last_res, result, attempts, htr_args, deadline_at>>

NextHtr ==
  \/ Begin
  \/ SelectAuto
  \/ SelectExplicit
  \/ BuildOrder
  \/ Attempt
  \/ Finish
  \/ HtrDisabledReturn
  \/ HtrPass

SpecHtr == InitHtr /\ [][NextHtr]_vars

---------------------------------------------------------------------------
(* A caller with a deadline.  recognize_pdf and recognize_images take no   *)
(* timeout argument and read no clock, so the deadline passing is a step   *)
(* of the caller that changes nothing the pipeline looks at               *)

TimedEngineArgs == {"paddle", "bogus", "nougat"}

InitTimeout ==
  /\ Init
  /\ entry = "recognize_images"
  /\ engine_arg \in TimedEngineArgs
  /\ ~auto_install

\* the caller's overall deadline passes between two iterations of the loop
DeadlinePasses ==
  /\ pc = "loop"
  /\ idx <= Len(order)
  /\ deadline_at = <<>>
  /\ deadline_at' = <<Len(attempts)>>
  /\ UNCHANGED <<Inputs, Pure, pc, engine, vector_text, images, order, idx,
                 last_res, result, error, calls, attempts, htr_args, printed,
                 htr_res, htr_result>>

NextTimeout ==
  \/ Begin
  \/ SelectExplicit
  \/ BuildOrder
  \/ Attempt
  \/ Finish
  \/ DeadlinePasses

SpecTimeout == InitTimeout /\ [][NextTimeout]_vars

---------------------------------------------------------------------------
(* is_sufficient_vector_text as a pure function: each step calls it on a  *)
(* generated text and keeps the argument and the returned value           *)

CoreLens == {0, 1, MIN_LEN - 1, MIN_LEN, MIN_LEN + 1}

MinLens == {0, MIN_LEN}

Idle ==
  /\ entry = "none" /\ engine_arg = "none" /\ engine = "none"
  /\ prefer_ocr = FALSE /\ confidence_threshold = DEFAULT_THRESHOLD
  /\ fallback_order = <<>> /\ has_pdfminer = TRUE /\ auto_install = FALSE
  /\ env_auto_install = <<"0">> /\ pip_ok = TRUE
  /\ vector_text = <<>> /\ images = <<>> /\ order = <<>> /\ idx = 0
  /\ last_res = <<>> /\ result = <<>> /\ error = <<>> /\ calls = <<>>
  /\ attempts = <<>> /\ htr_args = <<>> /\ printed = <<>> /\ htr_res = <<>>
  /\ htr_result = <<>> /\ deadline_at = <<>>

Pipeline == <<entry, engine_arg, engine, prefer_ocr, confidence_threshold,
              fallback_order, has_pdfminer, auto_install, env_auto_install,
              pip_ok, vector_text, images, order, idx, last_res, result, error, calls, attempts, htr_args,
              printed, htr_res, htr_result, deadline_at>>

InitGate ==
  /\ pc = "gate_fn"
  /\ Idle
  /\ fn_in = <<>>
  /\ fn_out = <<>>

CallIsSufficient ==
  /\ pc = "gate_fn"
  /\ \E lead \in 0..MaxPad, trail \in 0..MaxPad, core \in CoreLens,
        inner \in BOOLEAN, min_len \in MinLens :
       /\ fn_in' = <<[lead |-> lead, core |-> core, trail |-> trail,
                      text |-> MkText(lead, core, trail, inner),
                      min_len |-> min_len]>>
       /\ fn_out' = <<is_sufficient_vector_text(
                        MkText(lead, core, trail, inner), min_len)>>
  /\ UNCHANGED <<pc, Pipeline>>

NextGate == CallIsSufficient

SpecGate == InitGate /\ [][NextGate]_vars

---------------------------------------------------------------------------
(* auto_select_engine as a pure function of the candidate list and of     *)
(* deterministic adapters: the first step fixes both, every step calls it *)

\* a pilot text whose only script-bonus character lies past the prefix
LongText ==
  [i \in 1..(PILOT_TEXT_PREFIX + 1) |->
     IF i = PILOT_TEXT_PREFIX + 1 THEN "s_cedilla" ELSE "a"]

PilotOutputs ==
  {[text |-> <<"a">>,                 raw |-> 60,  meta |-> "p0"],
   [text |-> <<"b", "g_breve">>,      raw |-> 60,  meta |-> "p1"],
   [text |-> <<"b">>,                 raw |-> 65,  meta |-> "p2"],
   [text |-> LongText,                raw |-> 62,  meta |-> "p3"],
   [text |-> <<"c_cedilla">>,         raw |-> 120, meta |-> "p4"],
   [text |-> <<>>,                    raw |-> -10, meta |-> "p5"]}

PilotBehaviours ==
  {[kind |-> "import_error"], [kind |-> "runtime_error"]}
    \cup {[kind |-> "output", out |-> o] : o \in PilotOutputs}

CandidateLists ==
  {DefaultFallback, <<"tesseract", "paddle">>, <<"bogus", "easyocr", "paddle">>,
   <<"doctr", "tesseract">>, <<"nougat", "easyocr">>, <<>>}

Names(cands) == {cands[i] : i \in 1..Len(cands)}

InitAuto ==
  /\ pc = "auto_fn"
  /\ Idle
  /\ fn_in = <<>>
  /\ fn_out = <<>>

CallAutoSelectFirst ==
  /\ pc = "auto_fn"
  /\ fn_in = <<>>
  /\ \E cands \in CandidateLists :
       \E pilot \in [Names(cands) -> PilotBehaviours] :
         /\ fn_in' = <<[cands |-> cands, pilot |-> pilot]>>
         /\ fn_out' = <<auto_select_engine(cands, pilot)>>
  /\ UNCHANGED <<pc, Pipeline>>

CallAutoSelectAgain ==
  /\ pc = "auto_fn"
  /\ fn_in # <<>>
  /\ Len(fn_out) < MaxCalls
  /\ fn_out' = Append(fn_out, auto_select_engine(fn_in[1].cands, fn_in[1].pilot))
  /\ UNCHANGED <<pc, Pipeline, fn_in>>

NextAuto == CallAutoSelectFirst \/ CallAutoSelectAgain

SpecAuto == InitAuto /\ [][NextAuto]_vars

---------------------------------------------------------------------------
(* The adapters' confidence as a pure function of the raw scores the       *)
(* engine library reports, one list of scores per page image              *)

RawScores == {-50, 40, 150}

ScoreLists == UNION {[1..n -> RawScores] : n \in 0..MaxScores}

RECURSIVE Sum(_)
Sum(seq) == IF seq = <<>> THEN 0 ELSE Head(seq) + Sum(Tail(seq))

RECURSIVE Flatten(_)
Flatten(pages) == IF pages = <<>> THEN <<>> ELSE Head(pages) \o Flatten(Tail(pages))

\* sum(scores) / len(scores) if scores else 0.0, to the hundredth
MeanOf(scores) == IF scores = <<>> THEN 0 ELSE Sum(scores) \div Len(scores)

\* paddle and easyocr pool the scores of every page
PooledMean(pages) == MeanOf(Flatten(pages))

\* tesseract averages each page's values first and skips a page with none;
\* its values are percentages, which the division by 100.0 turns to fractions
TesseractMean(pages) ==
  MeanOf([k \in 1..Len(SelectSeq(pages, LAMBDA pg : pg # <<>>)) |->
            MeanOf(SelectSeq(pages, LAMBDA pg : pg # <<>>)[k])])

RawMean(a, pages) == IF a = "tesseract" THEN TesseractMean(pages) ELSE PooledMean(pages)

AdapterMethods == {"recognize_pdf", "recognize_images"}

InitAdapter ==
  /\ pc = "adapter_fn"
  /\ Idle
  /\ fn_in = <<>>
  /\ fn_out = <<>>

\* the one call of a behaviour: adapter a runs one method on pages whose raw
\* scores are given, and the pipeline builds its results from the outcome:
\* the accepted one, the degraded one, and the dual-pass one with
\* handwriting adapter h
CallAdapter ==
  /\ pc = "adapter_fn"
  /\ fn_in = <<>>
  /\ \E a \in Registry, method \in AdapterMethods, imgs \in ImageInputs,
        h \in {"trocr", "easyocr"} :
       \E pages \in [1..Len(imgs) -> ScoreLists] :
         LET b == [kind |-> "output",
                   out |-> [text |-> <<"a">>, raw |-> RawMean(a, pages),
                            meta |-> "m1"]]
             hb == [kind |-> "output",
                    out |-> [text |-> <<"b">>, raw |-> RawMean(h, pages),
                             meta |-> "m2"]]
             res == IF method = "recognize_pdf" THEN adapter_recognize_pdf(a, b)
                    ELSE adapter_recognize_images(a, b)
             hres == adapter_recognize_images(h, hb)
         IN  /\ fn_in' = <<[adapter |-> a, method |-> method, pages |-> pages,
                            raw |-> RawMean(a, pages), htr |-> h]>>
             /\ fn_out' =
                  IF res = <<>> THEN <<[res |-> res]>>
                  ELSE <<[res |-> res,
                          accepted |-> AcceptedResult("recognize_images", a, res[1]),
                          degraded |-> DegradedResult("recognize_images", res[1]),
                          combined |-> CombinedResult(
                            DegradedResult("recognize_images", res[1]), hres[1])]>>
  /\ UNCHANGED <<pc, Pipeline>>

NextAdapter == CallAdapter

SpecAdapter == InitAdapter /\ [][NextAdapter]_vars

---------------------------------------------------------------------------
(* cli.py: cmd_pdf and cmd_image under main, as a function of what the     *)
(* ingestion step, the examples file and lx.extract do                    *)

CliPayloadStrippedLen(path, ing) ==
  [input_path |-> path, used_ocr |-> ing.used_ocr, engine |-> ing.engine,
   ocr_confidence |-> ing.ocr_confidence, text_len |-> Len(strip(ing.text)),
   extraction |-> "annotated_document"]

\* the dict json.dumps writes; None is written as null
CliPayload(path, ing) ==
  [input_path |-> path, used_ocr |-> ing.used_ocr, engine |-> ing.engine,
   ocr_confidence |-> ing.ocr_confidence, text_len |-> Len(ing.text),
   extraction |-> "annotated_document"]

\* main(argv): ing is <<>> when the ingestion step raised, examples what
\* _build_examples returned, extract_ok whether lx.extract returned.  An
\* Exception ends in exit code 2; SystemExit passes through main, and a
\* SystemExit carrying a message ends the process with status 1
cli_main(path, ing, examples, extract_ok) ==
  IF ing = <<>> THEN [exit |-> 2, emitted |-> <<>>]
  ELSE IF examples = <<>> THEN [exit |-> 1, emitted |-> <<>>]
  ELSE IF ~extract_ok THEN [exit |-> 2, emitted |-> <<>>]
  ELSE [exit |-> 0, emitted |-> <<CliPayload(path, ing[1])>>]

CliCommands == {"pdf", "image"}

CliEntry(cmd) == IF cmd = "pdf" THEN "recognize_pdf" ELSE "recognize_images"

CliPath(cmd) == IF cmd = "pdf" THEN "doc.pdf" ELSE "page.png"

\* what the ingestion step of a command can return
CliIngestResults(cmd) ==
  (IF cmd = "pdf"
   THEN {VectorResult(CliEntry(cmd), t) :
           t \in {v \in VectorTexts : is_sufficient_vector_text(v, MIN_LEN)}}
   ELSE {})
  \cup {AcceptedResult(CliEntry(cmd), name, RecognizeResult(Lower(name), o)) :
          name \in {"paddle", "PADDLE", "doctr"}, o \in EngineOutputs}
  \cup {DegradedResult(CliEntry(cmd), RecognizeResult(a, o)) :
          a \in {"paddle", "easyocr", "tesseract"}, o \in EngineOutputs}

InitCli ==
  /\ pc = "cli_fn"
  /\ Idle
  /\ fn_in = <<>>
  /\ fn_out = <<>>

CallCli ==
  /\ pc = "cli_fn"
  /\ \E cmd \in CliCommands, examples \in {<<>>, <<"example">>},
        extract_ok \in BOOLEAN :
       \E ing \in {<<>>} \cup {<<r>> : r \in CliIngestResults(cmd)} :
         /\ fn_in' = <<[cmd |-> cmd, path |-> CliPath(cmd), ing |-> ing,
                        examples |-> examples, extract_ok |-> extract_ok]>>
         /\ fn_out' = <<cli_main(CliPath(cmd), ing, examples, extract_ok)>>
  /\ UNCHANGED <<pc, Pipeline>>

NextCli == CallCli

SpecCli == InitCli /\ [][NextCli]_vars

---------------------------------------------------------------------------
(* Properties.  Helpers read the two histories, calls and attempts.       *)

Terminal == pc \in {"done", "failed"}

InLoopPhase == pc = "loop" \/ (Terminal /\ order # <<>>)

IsLoopBuild(c) == c.phase = "loop" /\ c.op = "build_adapter"

IsLoopInvoke(c) ==
  c.phase = "loop" /\ c.op \in {"recognize_pdf", "recognize_images"}

IsRecognition(c) == c.op \in {"build_adapter", "recognize_pdf", "recognize_images"}

WhoOf(cs) == [k \in 1..Len(cs) |-> cs[k].who]

Returned(k) == attempts[k].kind = "returned"

ConfOf(k) == attempts[k].res[1].mean_confidence

ReachesThreshold(k) == Returned(k) /\ ConfOf(k) >= confidence_threshold

ReturnedIdx == {k \in 1..Len(attempts) : Returned(k)}

LastReturnedIdx == CHOOSE k \in ReturnedIdx : \A j \in ReturnedIdx : j <= k

Invoked(k) == attempts[k].kind # "build_raised"

InvokedNames == SelectSeq([k \in 1..Len(attempts) |->
                             IF Invoked(k) THEN attempts[k].name ELSE "-"],
                          LAMBDA n : n # "-")

Exhausted == Terminal /\ order # <<>> /\ Len(attempts) = Len(order)

\* C1: the loop tries the engines of order one at a time and in order; an
\* engine is built or invoked only after every earlier one raised or stayed
\* strictly below the threshold; the first outcome with mean confidence >=
\* the threshold is returned at once and nothing is built or invoked after it
C1_FallbackEarlyExit ==
  InLoopPhase =>
    /\ Len(attempts) <= Len(order)
    /\ \A k \in 1..Len(attempts) : attempts[k].name = order[k]
    /\ WhoOf(SelectSeq(calls, IsLoopBuild)) = [k \in 1..Len(attempts) |-> order[k]]
    /\ WhoOf(SelectSeq(calls, IsLoopInvoke)) = InvokedNames
    /\ \A k \in 1..Len(attempts) :
         ReachesThreshold(k) =>
           /\ k = Len(attempts)
           /\ pc = "done"
           /\ result = <<[input_path |-> InputPath(entry), used_ocr |-> TRUE,
                          engine |-> <<order[k]>>,
                          ocr_confidence |-> <<ConfOf(k)>>,
                          text |-> attempts[k].res[1].text,
                          meta |-> attempts[k].res[1].meta]>>

\* an engine below the threshold, then one exactly at it, accepted, with
\* engines of the order left untried
C1_Witness ==
  /\ pc = "done"
  /\ Len(attempts) >= 2
  /\ Len(attempts) < Len(order)
  /\ Returned(1) /\ ~ReachesThreshold(1)
  /\ ReachesThreshold(Len(attempts))
  /\ ConfOf(Len(attempts)) = confidence_threshold
  /\ result # <<>> /\ result[1].used_ocr

\* C2: when the loop exhausts the order with no outcome at the threshold and
\* at least one engine returned, the call returns (does not fail) a result
\* with used_ocr true whose text, confidence and metadata are those of the
\* last engine that returned, even if later engines raised
C2_DegradedSuccess ==
  (Exhausted /\ ReturnedIdx # {} /\ \A k \in ReturnedIdx : ~ReachesThreshold(k)) =>
    /\ pc = "done"
    /\ error = <<>>
    /\ result # <<>>
    /\ result[1].used_ocr
    /\ result[1].text = attempts[LastReturnedIdx].res[1].text
    /\ result[1].ocr_confidence = <<ConfOf(LastReturnedIdx)>>
    /\ result[1].meta = attempts[LastReturnedIdx].res[1].meta

\* two engines returned below the threshold, the later of them with non-empty
\* text, and an engine raised after it
C2_Witness ==
  /\ Exhausted
  /\ pc = "done"
  /\ Cardinality(ReturnedIdx) >= 2
  /\ \A k \in ReturnedIdx : ~ReachesThreshold(k)
  /\ LastReturnedIdx < Len(attempts)
  /\ attempts[LastReturnedIdx].res[1].text # <<>>
  /\ \E k \in ReturnedIdx : attempts[k].res[1] # attempts[LastReturnedIdx].res[1]

RasterizationDone == entry = "recognize_images" \/ images # <<>>

\* C3: once there are images, the call fails exactly when every engine of the
\* order raised at construction or invocation, and then with
\* NoEngineSucceeded; no engine's failure reaches the caller when another
\* engine returned
C3_FailsIffAllRaised ==
  (Terminal /\ RasterizationDone) =>
    /\ (pc = "failed") <=> (Exhausted /\ ReturnedIdx = {})
    /\ (pc = "failed") => (error = <<"NoEngineSucceeded">> /\ result = <<>>)
    /\ (pc = "done") => (error = <<>> /\ result # <<>>)

\* a construction failure and an invocation failure, and still a result
C3_Witness ==
  /\ pc = "done"
  /\ RasterizationDone
  /\ \E j, k \in 1..Len(attempts) :
       attempts[j].kind = "build_raised" /\ attempts[k].kind = "call_raised"
  /\ ReturnedIdx # {}
  /\ error = <<>>

Distinct(seq) == \A i, j \in 1..Len(seq) : i # j => seq[i] # seq[j]

\* C4 (as claimed): in every invocation the order is a sequence of pairwise
\* distinct identifiers whose first element is the engine (explicit or
\* auto-selected), followed by the default fallback engines, duplicates
\* removed keeping the first occurrence
C4_OrderDistinctEngineFirst ==
  InLoopPhase =>
    /\ Distinct(order)
    /\ order[1] = engine
    /\ order = AppendDefaults(<<engine>>, 1)

UnknownExplicitEngine == engine_arg # "auto" /\ Lower(engine_arg) \notin Registry

\* C5 (as claimed): an unknown explicit engine is fatal: a call that reached
\* the registry lookup with it ends failed with UnknownEngine, returns no
\* result, and has built or invoked no other engine
C5_UnknownEngineFatal ==
  (UnknownExplicitEngine /\ Terminal /\ attempts # <<>>) =>
    /\ pc = "failed"
    /\ error = <<"UnknownEngine">>
    /\ result = <<>>
    /\ \A i \in 1..Len(calls) :
         (IsRecognition(calls[i]) /\ calls[i].phase = "loop")
           => calls[i].who = engine_arg

\* C6: with prefer_ocr false and an extractor that returned sufficient text,
\* recognize_pdf returns used_ocr false, no engine, no confidence and the
\* extracted text itself, having called neither the rasterizer nor any
\* adapter; and every result with used_ocr false is of that shape
C6_VectorBypass ==
  /\ (entry = "recognize_pdf" /\ pc \notin {"start", "gate"} /\ ~prefer_ocr
        /\ has_pdfminer /\ Len(strip(vector_text)) >= MIN_LEN)
       => (pc = "done" /\ result # <<>> /\ ~result[1].used_ocr)
  /\ (result # <<>> /\ ~result[1].used_ocr) =>
       /\ result[1].engine = <<>>
       /\ result[1].ocr_confidence = <<>>
       /\ result[1].text = vector_text
       /\ \A i \in 1..Len(calls) :
            ~IsRecognition(calls[i]) /\ calls[i].op # "convert_from_path"
       /\ attempts = <<>>

\* the gate returned a text that strip() would shorten
C6_Witness ==
  /\ pc = "done"
  /\ result # <<>>
  /\ ~result[1].used_ocr
  /\ strip(vector_text) # vector_text
  /\ \E i \in 1..Len(calls) : calls[i].op = "extract_text"

HasCall(op) == \E i \in 1..Len(calls) : calls[i].op = op

\* C8: with prefer_ocr true recognize_pdf never calls the extractor and never
\* short-circuits: it goes on to rasterize, and a returned result has
\* used_ocr true
C8_PreferOcrSkipsGate ==
  (entry = "recognize_pdf" /\ prefer_ocr) =>
    /\ ~HasCall("extract_text")
    /\ vector_text = <<>>
    /\ pc \notin {"start", "gate", "raster"} => HasCall("convert_from_path")
    /\ result # <<>> => result[1].used_ocr

\* prefer_ocr with an extractor that is available, and a returned result
C8_Witness ==
  /\ entry = "recognize_pdf"
  /\ prefer_ocr
  /\ has_pdfminer
  /\ pc = "done"
  /\ result # <<>>

ExtractorRaised ==
  \E i \in 1..Len(calls) : calls[i].op = "extract_text" /\ ~calls[i].ok

\* C9: when the extractor raises, or is unavailable, nothing reaches the
\* caller: the gate behaves as with no vector text and the run goes on to
\* rasterize; the only failures are those of the later steps
C9_ExtractorFailureAbsorbed ==
  (entry = "recognize_pdf" /\ pc \notin {"start", "gate"}
     /\ (ExtractorRaised \/ ~has_pdfminer)) =>
    /\ vector_text = <<>>
    /\ pc = "raster" \/ HasCall("convert_from_path")
    /\ error \in {<<>>, <<"RasterizationFailed">>, <<"NoEngineSucceeded">>}
    /\ result # <<>> => result[1].used_ocr
    /\ ~has_pdfminer => ~HasCall("extract_text")

\* the extractor raised and recognition went on to a result
C9_Witness ==
  /\ ExtractorRaised
  /\ pc = "done"
  /\ result # <<>>
  /\ result[1].used_ocr

PilotOk(name, b) ==
  /\ Lower(name) \in Registry
  /\ Lower(name) # "nougat"
  /\ b.kind = "output"

ExpectedScore(name, b) ==
  (IF Lower(name) \in {"paddle", "easyocr", "tesseract"}
   THEN (IF b.out.raw < 0 THEN 0 ELSE IF b.out.raw > 100 THEN 100 ELSE b.out.raw)
   ELSE 0)
  + (IF \E j \in 1..Len(b.out.text) :
          j <= PILOT_TEXT_PREFIX /\ b.out.text[j] \in ScriptBonusChars
     THEN SCRIPT_BONUS ELSE 0)

C11_AutoSelectNeverFails ==
  (pc = "auto_fn" /\ fn_out # <<>>) =>
    LET cands == fn_in[1].cands
        pilot == fn_in[1].pilot
        ok == {i \in 1..Len(cands) : PilotOk(cands[i], pilot[cands[i]])}
    IN  \A n \in 1..Len(fn_out) :
          /\ fn_out[n] # <<>>
          /\ fn_out[n][1] \in Names(cands)
          /\ ok = {} => fn_out[n] = <<cands[1]>>

HtrEnabled == htr_args # <<>> /\ htr_args[1].enable_htr

HtrRaised == \E i \in 1..Len(calls) : calls[i].phase = "htr" /\ ~calls[i].ok

\* C12: in maybe_enable_htr with enable_htr true, when the printed pass and
\* the handwriting pass both returned, the returned text is the printed text,
\* one newline, the handwriting text; the confidence is the larger of the two
\* passes' confidences; the engine is the printed result's engine, "+", the
\* handwriting adapter's name
C12_HtrCombined ==
  (HtrEnabled /\ pc = "returned" /\ htr_res # <<>>) =>
    /\ printed = result
    /\ printed # <<>>
    /\ htr_res[1].engine = Lower(htr_args[1].htr_engine)
    /\ htr_result # <<>>
    /\ htr_result[1].used_ocr
    /\ htr_result[1].text = printed[1].text \o <<"\n">> \o htr_res[1].text
    /\ Len(htr_result[1].text)
         = Len(printed[1].text) + 1 + Len(htr_res[1].text)
    /\ htr_result[1].ocr_confidence
         = <<IF printed[1].ocr_confidence[1] >= htr_res[1].mean_confidence
             THEN printed[1].ocr_confidence[1]
             ELSE htr_res[1].mean_confidence>>
    /\ htr_result[1].engine
         = <<printed[1].engine[1] \o "+" \o htr_res[1].engine>>

\* the printed text came from a fallback engine with a confidence below the
\* handwriting pass's, and both texts are non-empty
C12_Witness ==
  /\ HtrEnabled
  /\ pc = "returned"
  /\ htr_res # <<>>
  /\ printed # <<>>
  /\ printed[1].text # <<>>
  /\ htr_res[1].text # <<>>
  /\ printed[1].engine # <<engine_arg>>
  /\ htr_res[1].mean_confidence > printed[1].ocr_confidence[1]
  /\ htr_result[1].engine = <<"easyocr+tesseract">>

\* C13: with enable_htr true, when building or invoking the handwriting
\* engine raises, maybe_enable_htr returns the printed-pass result itself,
\* every field unchanged, and raises nothing; and whatever it returns has a
\* confidence not below the printed pass's and a text that starts with the
\* printed text
C13_HtrNeverRegresses ==
  (HtrEnabled /\ printed # <<>>) =>
    /\ HtrRaised =>
         /\ pc = "returned"
         /\ error = <<>>
         /\ htr_result = printed
         /\ printed = result
    /\ htr_result # <<>> =>
         /\ htr_result[1].ocr_confidence[1] >= printed[1].ocr_confidence[1]
         /\ Len(htr_result[1].text) >= Len(printed[1].text)
         /\ SubSeq(htr_result[1].text, 1, Len(printed[1].text)) = printed[1].text

\* the handwriting engine was built and raised when invoked, after a printed
\* pass that produced text
C13_Witness ==
  /\ HtrEnabled
  /\ pc = "returned"
  /\ printed # <<>>
  /\ printed[1].text # <<>>
  /\ calls[Len(calls)].phase = "htr"
  /\ calls[Len(calls)].op = "recognize_images"
  /\ ~calls[Len(calls)].ok
  /\ htr_result = printed

\* C14 (as claimed): every returned result with used_ocr true has a non-empty
\* text, and a run in which every engine that returned gave an empty text
\* ends in failure
C14_OcrTextNonEmpty ==
  /\ (result # <<>> /\ result[1].used_ocr) => result[1].text # <<>>
  /\ (Terminal /\ order # <<>>
        /\ \A k \in ReturnedIdx : attempts[k].res[1].text = <<>>)
       => pc = "failed"

Degraded == pc = "done" /\ order # <<>> /\ idx > Len(order)

\* C15 (as claimed): when the loop ends with no outcome at the threshold, the
\* confidence of the returned result is the highest mean confidence among
\* the engines that returned
C15_DegradedIsBest ==
  (Degraded /\ result # <<>>) =>
    \A k \in ReturnedIdx : result[1].ocr_confidence[1] >= ConfOf(k)

\* C15 (amended): when the loop ends with no outcome at the threshold, the
\* returned result is the outcome of the last engine that returned, whatever
\* the earlier outcomes were: it carries that engine's name and mean
\* confidence, which is below the threshold
C15_DegradedIsLast ==
  (Degraded /\ result # <<>>) =>
    /\ last_res = attempts[LastReturnedIdx].res
    /\ result[1].engine = <<attempts[LastReturnedIdx].res[1].engine>>
    /\ result[1].ocr_confidence = <<ConfOf(LastReturnedIdx)>>
    /\ ConfOf(LastReturnedIdx) < confidence_threshold
    /\ \A k \in ReturnedIdx : k <= LastReturnedIdx

\* an earlier engine returned with a higher confidence than the one returned
C15_Witness ==
  /\ Degraded
  /\ result # <<>>
  /\ \E k \in ReturnedIdx :
       /\ k < LastReturnedIdx
       /\ ConfOf(k) > result[1].ocr_confidence[1]
       /\ attempts[k].res[1].text # result[1].text

\* C16: for a result with used_ocr true, the confidence is >= the threshold
\* exactly when the loop returned it on acceptance, and < the threshold
\* exactly when the loop ran out with no attempted engine at the threshold;
\* the confidence is the mean confidence of the outcome whose text is returned
C16_ConfidenceTellsAccepted ==
  (result # <<>> /\ result[1].used_ocr) =>
    /\ ReturnedIdx # {}
    /\ (result[1].ocr_confidence[1] >= confidence_threshold)
         <=> (idx <= Len(order) /\ ReachesThreshold(Len(attempts)))
    /\ (result[1].ocr_confidence[1] < confidence_threshold)
         <=> (idx > Len(order)
                /\ \A k \in 1..Len(attempts) : ~ReachesThreshold(k))
    /\ result[1].ocr_confidence[1] = ConfOf(LastReturnedIdx)
    /\ result[1].text = attempts[LastReturnedIdx].res[1].text

\* a degraded result with a confidence strictly between 0 and the threshold,
\* returned after a later engine raised
C16_Witness ==
  /\ Degraded
  /\ result # <<>>
  /\ result[1].ocr_confidence[1] > 0
  /\ result[1].ocr_confidence[1] < confidence_threshold
  /\ LastReturnedIdx < Len(attempts)

\* C17 (as claimed): once the caller's overall timeout has expired during the
\* loop, no further candidate is attempted, and the call ends with the last
\* result obtained so far if there is one, otherwise with Timeout
C17_TimeoutAbandons ==
  deadline_at # <<>> =>
    /\ Len(attempts) = deadline_at[1]
    /\ Terminal =>
         IF last_res # <<>>
         THEN pc = "done" /\ result = <<DegradedResult(entry, last_res[1])>>
         ELSE pc = "failed" /\ error = <<"Timeout">>

\* the engines a result's metadata names as failed: the metadata is the
\* returning adapter's own (elapsed_ms, pages, lang or device), or the two
\* passes' metadata, or {"vector": True}
MetaFailedEngines(meta) == {}

\* the engines the raised error names: the message of line 209 is fixed
ErrorFailedEngines(err) == {}

RaisedNames == {attempts[k].name : k \in {j \in 1..Len(attempts) : ~Returned(j)}}

\* C19 (as claimed): whenever engines raised during an invocation, the
\* returned result's metadata names each of them as failed, or, when every
\* engine failed, the error raised to the caller does
C19_FailuresRecorded ==
  /\ (pc = "done" /\ result # <<>>)
       => RaisedNames \subseteq MetaFailedEngines(result[1].meta)
  /\ (pc = "failed" /\ error = <<"NoEngineSucceeded">>)
       => RaisedNames \subseteq ErrorFailedEngines(error[1])

InUnit(c) == c >= 0 /\ c <= 100

\* C18: whatever raw scores the engine library reports, the mean confidence
\* an adapter returns lies in [0, 1]: the raw mean when that lies in [0, 1],
\* 0 below it and 1 above it, and exactly 0 for the adapters without a
\* confidence signal; and so does the confidence of every result built from
\* it, the maximum of the two passes included
C18_ConfidenceInUnitInterval ==
  (pc = "adapter_fn" /\ fn_out # <<>> /\ fn_out[1].res # <<>>) =>
    LET conf == fn_out[1].res[1].mean_confidence
        raw == fn_in[1].raw
    IN  /\ InUnit(conf)
        /\ fn_in[1].adapter \in {"paddle", "easyocr", "tesseract"} =>
             conf = (IF raw < 0 THEN 0 ELSE IF raw > 100 THEN 100 ELSE raw)
        /\ fn_in[1].adapter \in {"doctr", "trocr", "donut", "nougat"} => conf = 0
        /\ fn_out[1].accepted.ocr_confidence = <<conf>>
        /\ fn_out[1].degraded.ocr_confidence = <<conf>>
        /\ InUnit(fn_out[1].combined.ocr_confidence[1])
        /\ fn_out[1].combined.ocr_confidence[1] >= conf

\* an engine whose raw mean is above 1, reported as 1, and a handwriting pass
\* on the same pages with a raw mean above 1 too
C18_Witness ==
  /\ pc = "adapter_fn"
  /\ fn_out # <<>>
  /\ fn_out[1].res # <<>>
  /\ fn_in[1].raw > 100
  /\ fn_in[1].adapter = "tesseract"
  /\ fn_in[1].htr = "easyocr"
  /\ fn_out[1].res[1].mean_confidence = 100
  /\ fn_out[1].combined.ocr_confidence = <<100>>

\* C20: when the ingestion step returned a result, examples were supplied and
\* the extraction succeeded, the pdf and image commands end with exit code 0
\* and emit one payload whose used_ocr, engine and ocr_confidence are those
\* of the ingestion result and whose text_len is the length of its text
C20_CliPayload ==
  (pc = "cli_fn" /\ fn_out # <<>> /\ fn_in[1].ing # <<>>
     /\ fn_in[1].examples # <<>> /\ fn_in[1].extract_ok) =>
    /\ fn_out[1].exit = 0
    /\ Len(fn_out[1].emitted) = 1
    /\ fn_out[1].emitted[1].used_ocr = fn_in[1].ing[1].used_ocr
    /\ fn_out[1].emitted[1].engine = fn_in[1].ing[1].engine
    /\ fn_out[1].emitted[1].ocr_confidence = fn_in[1].ing[1].ocr_confidence
    /\ fn_out[1].emitted[1].text_len = Len(fn_in[1].ing[1].text)

\* the pdf command on a vector-text result, which has no engine and no
\* confidence and a text with whitespace around it
C20_Witness ==
  /\ pc = "cli_fn"
  /\ fn_out # <<>>
  /\ fn_in[1].cmd = "pdf"
  /\ fn_in[1].ing # <<>>
  /\ ~fn_in[1].ing[1].used_ocr
  /\ strip(fn_in[1].ing[1].text) # fn_in[1].ing[1].text
  /\ fn_out[1].exit = 0
  /\ fn_out[1].emitted[1].engine = <<>>
  /\ fn_out[1].emitted[1].text_len >= MIN_LEN

IsLoopRecognition(c) == c.phase = "loop" /\ IsRecognition(c)

OpWho(cs) == [k \in 1..Len(cs) |-> <<cs[k].op, cs[k].who, cs[k].imgs>>]

\* the recognition calls the attempts from k on account for: a construction
\* each, then one invocation when the construction returned, by recognize_pdf
\* on the path when the adapter supports PDF, else by recognize_images on
\* the page images
RECURSIVE ExpectedLoopCalls(_)
ExpectedLoopCalls(k) ==
  IF k > Len(attempts) THEN <<>>
  ELSE LET name == attempts[k].name
       IN  <<<<"build_adapter", name, <<>>>>>>
           \o (IF ~Invoked(k) THEN <<>>
               ELSE IF Lower(name) \in {"paddle", "doctr", "nougat"}
               THEN <<<<"recognize_pdf", name, <<>>>>>>
               ELSE <<<<"recognize_images", name, images[1]>>>>)
           \o ExpectedLoopCalls(k + 1)

\* C21: in recognize_pdf's loop every attempt constructs the adapter and then
\* invokes exactly one method on it: recognize_pdf on the path when the
\* adapter supports PDF, else recognize_images on the rasterized pages; when
\* that method raises, no other method of the adapter is called and the next
\* call is the next engine's construction
C21_OneMethodPerAttempt ==
  (entry = "recognize_pdf" /\ InLoopPhase) =>
    /\ OpWho(SelectSeq(calls, IsLoopRecognition)) = ExpectedLoopCalls(1)
    /\ \A k \in 1..Len(attempts) :
         Invoked(k) =>
           attempts[k].method
             = (IF Lower(attempts[k].name) \in {"paddle", "doctr", "nougat"}
                THEN "recognize_pdf" ELSE "recognize_images")

\* a PDF-capable adapter raised in recognize_pdf, and the next call was the
\* construction of the next engine, which read the page images
C21_Witness ==
  /\ entry = "recognize_pdf"
  /\ pc = "done"
  /\ Len(attempts) >= 2
  /\ attempts[1].kind = "call_raised"
  /\ attempts[1].method = "recognize_pdf"
  /\ attempts[2].kind = "returned"
  /\ attempts[2].method = "recognize_images"

RasterCalls == {i \in 1..Len(calls) : calls[i].op = "convert_from_path"}

\* C22: recognize_pdf calls the rasterizer at most once, after the gate (when
\* the extractor was called at all) and only when the gate did not find
\* sufficient vector text, and before every pilot or engine call; when the
\* rasterizer raises, the call fails with that error and no adapter is ever
\* constructed or invoked, whatever the requested engine
C22_RasterizeOnceFirst ==
  /\ Cardinality(RasterCalls) <= 1
  /\ \A i \in RasterCalls :
       /\ entry = "recognize_pdf"
       /\ ~is_sufficient_vector_text(vector_text, MIN_LEN)
       /\ \A j \in 1..Len(calls) :
            /\ calls[j].op = "extract_text" => j < i
            /\ IsRecognition(calls[j]) => j > i
       /\ ~calls[i].ok =>
            /\ pc = "failed"
            /\ error = <<"RasterizationFailed">>
            /\ result = <<>>
            /\ attempts = <<>>
            /\ \A j \in 1..Len(calls) : ~IsRecognition(calls[j])
  /\ (entry = "recognize_pdf" /\ \E j \in 1..Len(calls) : IsRecognition(calls[j]))
       => \E i \in RasterCalls : calls[i].ok

\* the extractor returned an insufficient text, the rasterizer raised, and
\* the requested engine is one whose adapter reads a PDF by itself
C22_Witness ==
  /\ entry = "recognize_pdf"
  /\ engine_arg = "nougat"
  /\ vector_text # <<>>
  /\ pc = "failed"
  /\ \E i \in RasterCalls : ~calls[i].ok
  /\ error = <<"RasterizationFailed">>

PilotIdx == {i \in 1..Len(calls) : calls[i].phase = "pilot"}

\* the run has passed step 3 (lines 163-164)
PilotDone == pc = "order" \/ order # <<>>

\* C23: in a run that reaches the engine selection, the pilot runs exactly
\* when the engine argument is "auto", and never otherwise; all of its
\* calls come before the first call of the fallback loop; it constructs the
\* three default candidates in order and invokes a candidate only through
\* recognize_images, on the one sample cropped from the first page image, at
\* most 512 by 512, never on the page images as they are nor on the path
C23_PilotOnlyForAuto ==
  /\ PilotIdx # {} => (engine_arg = "auto" /\ PilotDone)
  /\ (engine_arg = "auto" /\ PilotDone) => PilotIdx # {}
  /\ \A i \in PilotIdx :
       /\ \A j \in 1..Len(calls) : calls[j].phase = "loop" => i < j
       /\ calls[i].op \in {"build_adapter", "recognize_images"}
       /\ calls[i].op = "recognize_images" =>
            /\ Len(calls[i].imgs) <= 1
            /\ Len(calls[i].imgs) = Min(1, Len(images[1]))
            /\ \A n \in 1..Len(calls[i].imgs) :
                 /\ calls[i].imgs[n].w = Min(images[1][1].w, MAX_SIDE)
                 /\ calls[i].imgs[n].h = Min(images[1][1].h, MAX_SIDE)
  /\ PilotIdx # {} =>
       WhoOf(SelectSeq(calls, LAMBDA c : c.phase = "pilot" /\ c.op = "build_adapter"))
         = DefaultFallback

\* recognize_pdf with engine "auto" on two pages, the first larger than the
\* sample: a candidate read the 512 by 512 sample, and the loop ran after it
C23_Witness ==
  /\ entry = "recognize_pdf"
  /\ engine_arg = "auto"
  /\ pc = "done"
  /\ attempts # <<>>
  /\ Len(images[1]) = 2
  /\ \E i \in PilotIdx :
       /\ calls[i].op = "recognize_images"
       /\ calls[i].imgs = <<[w |-> MAX_SIDE, h |-> MAX_SIDE]>>

\* the caller's part of the order: the fallback_order given to recognize_pdf,
\* with the engine put in front when it is not in it, else the engine alone
CallerEntries ==
  IF entry = "recognize_pdf" /\ fallback_order # <<>> /\ fallback_order[1] # <<>>
  THEN (IF \E i \in 1..Len(fallback_order[1]) : fallback_order[1][i] = engine
        THEN fallback_order[1] ELSE <<engine>> \o fallback_order[1])
  ELSE <<engine>>

\* C24: whatever the engine and the fallback_order, the order holds paddle,
\* easyocr and tesseract: it is the caller's entries followed by the default
\* engines missing from them, in that relative order; so when every earlier
\* engine raised or stayed below the threshold, each default engine has been
\* attempted, listed by the caller or not
C24_DefaultsAlwaysAppended ==
  InLoopPhase =>
    /\ \A i \in 1..Len(DefaultFallback) :
         \E k \in 1..Len(order) : order[k] = DefaultFallback[i]
    /\ Len(order) >= Len(CallerEntries)
    /\ SubSeq(order, 1, Len(CallerEntries)) = CallerEntries
    /\ SubSeq(order, Len(CallerEntries) + 1, Len(order))
         = SelectSeq(DefaultFallback,
                     LAMBDA d : \A k \in 1..Len(CallerEntries) : CallerEntries[k] # d)
    /\ Exhausted =>
         \A i \in 1..Len(DefaultFallback) :
           \E k \in 1..Len(attempts) : attempts[k].name = DefaultFallback[i]

\* the caller listed doctr and paddle only, both stayed short of a result at
\* the threshold, and easyocr, which the caller did not list, was invoked
C24_Witness ==
  /\ entry = "recognize_pdf"
  /\ fallback_order = <<<<"doctr", "paddle">>>>
  /\ engine_arg = "paddle"
  /\ Len(attempts) >= 3
  /\ attempts[3].name = "easyocr"
  /\ attempts[3].kind = "returned"
  /\ pc = "done"

IsPip(c) == c.op = "pip_install"

PipIdx == {i \in 1..Len(calls) : IsPip(calls[i])}

LoopBuildIdx == {i \in 1..Len(calls) : IsLoopBuild(calls[i])}

Disabled == strip(env_auto_install) \in DisabledValues

\* C25: with LANGEXTRACT_INGEST_AUTO_INSTALL set to 0, false, False or no
\* (padded or not) no pip call is ever made; otherwise the common packages
\* are installed by the first call of the invocation, before the gate, and
\* each construction of an engine that has packages, in the fallback loop,
\* comes right after the pip call for that engine; pip is never called
\* elsewhere, and a pip call that fails raises nothing: the construction
\* it precedes still happens, every construction is one attempt, and the
\* failure is never the invocation's error
C25_AutoInstall ==
  /\ Disabled => PipIdx = {}
  /\ (~Disabled /\ pc # "start") =>
       /\ calls # <<>>
       /\ calls[1] = pip_install("common", pip_ok)
       /\ \A i \in LoopBuildIdx :
            HasPackages(calls[i].who) =>
              i > 1 /\ calls[i - 1] = pip_install(calls[i].who, pip_ok)
  /\ \A i \in PipIdx :
       \/ i = 1 /\ calls[i].who = "common"
       \/ i > 1 /\ i < Len(calls) /\ IsLoopBuild(calls[i + 1])
            /\ calls[i + 1].who = calls[i].who
  /\ Cardinality(LoopBuildIdx) = Len(attempts)
  /\ \A i \in 1..Len(error) :
       error[i] \in {"ExtractionFailed", "RasterizationFailed", "NoEngineSucceeded"}

\* pip fails for the common packages and for an engine, and the invocation
\* still returns that engine's result
C25_Witness ==
  /\ ~Disabled
  /\ ~pip_ok
  /\ pc = "done"
  /\ result # <<>>
  /\ result[1].used_ocr
  /\ Cardinality(PipIdx) >= 2
  /\ \E i \in PipIdx : i > 1 /\ ~calls[i].ok

InvokedIdx == {k \in 1..Len(attempts) : Invoked(k)}

\* C26: within one invocation no engine, as build_adapter resolves the
\* identifier (lower-cased), is invoked on the full document twice, and the
\* full-document invocations are never more than the registry has engines
C26_NoEngineTwice ==
  /\ \A j, k \in InvokedIdx :
       j < k => Lower(attempts[j].name) # Lower(attempts[k].name)
  /\ Cardinality(InvokedIdx) <= Cardinality(Registry)

OcrResult == pc = "done" /\ result # <<>> /\ result[1].used_ocr

\* C27: a result with used_ocr true returns the text of the last outcome of
\* the loop and its engine field is the engine name that outcome carries,
\* on the accepted path and on the degraded path alike
C27_EngineFieldIsProducer ==
  OcrResult =>
    /\ last_res # <<>>
    /\ result[1].text = last_res[1].text
    /\ result[1].engine = <<last_res[1].engine>>

HtrCallIdx == {i \in 1..Len(calls) : calls[i].phase = "htr"}

\* C28: in maybe_enable_htr the handwriting engine is built or invoked only
\* with enable_htr true and only once the printed pass has returned its
\* result, after every call of that pass; with enable_htr false the value
\* returned is the value of recognize_images and nothing of the handwriting
\* pass exists; when the printed pass ends with NoEngineSucceeded the call
\* has failed, returns nothing and the handwriting engine was never touched
C28_HtrOnlyAfterPrinted ==
  /\ HtrCallIdx # {} =>
       /\ htr_args[1].enable_htr
       /\ pc = "returned"
       /\ result # <<>>
       /\ printed = result
       /\ \A i \in HtrCallIdx :
            \A j \in (1..Len(calls)) \ HtrCallIdx : j < i
  /\ ~htr_args[1].enable_htr =>
       /\ HtrCallIdx = {}
       /\ printed = <<>>
       /\ htr_res = <<>>
       /\ pc = "returned" => result # <<>> /\ htr_result = result
  /\ pc = "failed" =>
       /\ error = <<"NoEngineSucceeded">>
       /\ HtrCallIdx = {}
       /\ printed = <<>>
       /\ htr_result = <<>>
  /\ htr_result # <<>> => pc = "returned"

\* handwriting was requested and every engine of the printed pass failed
C28_Witness ==
  /\ htr_args[1].enable_htr
  /\ pc = "failed"
  /\ error = <<"NoEngineSucceeded">>
  /\ Len(attempts) = Len(order)
  /\ Len(attempts) >= 3
  /\ HtrCallIdx = {}

=============================================================================
